---- MODULE Spec2Model ----
(***************************************************************************)
(* servnt: a configuration-driven static file server (src/src/main.rs).    *)
(*                                                                         *)
(* A string is a sequence of symbols.  The symbols "/" and "." are the     *)
(* path separator and the dot; every other symbol ("index", "foo", "bar",  *)
(* "html", "HTML", ...) stands for a run of ordinary characters, so that   *)
(* "/foobar" is <<"/","foo","bar">> and has "/foo" as a raw string prefix  *)
(* without having it as a path-segment prefix.                             *)
(***************************************************************************)
EXTENDS Naturals, Sequences, FiniteSets, TLC

VARIABLES
    pc,           \* position of main: "start", "loaded", "built", "serving", "exited"
    servnt_toml,  \* the servnt.toml found in the working directory (or None)
    servnt_file,  \* the parsed ServntFile (or None)
    state,        \* the shared ServntState (or None)
    bound,        \* whether the listening socket has been bound
    disk,         \* the filesystem: canonical path |-> node
    changes,      \* number of filesystem changes made by the environment
    request,      \* the virtual path of the last request handled (or None)
    resolved,     \* what resolve_path returned for it
    content,      \* what get_content_type returned for it (or None if not called)
    response,     \* the HTTP response produced for it
    stderr,       \* the last line written to the diagnostic stream
    served_on,    \* the filesystem as it was when the last request was handled
    previous      \* if the request before the last asked for the same path: its outcome

vars == <<pc, servnt_toml, servnt_file, state, bound, disk, changes,
          request, resolved, content, response, stderr, served_on, previous>>

\* Option values: None, or Some(x) holding x.
None == <<>>
Some(x) == <<x>>
Get(o) == o[1]

\* How many times the environment may change the served tree during a run.
MaxDiskChanges == 2

(***************************************************************************)
(* Strings and std::path                                                   *)
(***************************************************************************)
SEP == "/"
DOT == "."
Root == <<SEP>>
CurDirName == <<DOT>>
ParentDirName == <<DOT, DOT>>

HasRoot(s) == Len(s) > 0 /\ s[1] = SEP

EndsWithSep(s) == Len(s) > 0 /\ s[Len(s)] = SEP

\* The raw segments of a path string: the non-empty runs between separators.
RECURSIVE SplitFrom(_, _, _, _)
SplitFrom(s, i, cur, acc) ==
    IF i > Len(s)
    THEN IF cur = <<>> THEN acc ELSE Append(acc, cur)
    ELSE IF s[i] = SEP
         THEN SplitFrom(s, i + 1, <<>>, IF cur = <<>> THEN acc ELSE Append(acc, cur))
         ELSE SplitFrom(s, i + 1, Append(cur, s[i]), acc)

Split(s) == SplitFrom(s, 1, <<>>, <<>>)

\* The segments Path::components keeps: "." segments are dropped except a
\* leading one of a relative path (CurDir); ".." is kept.
RECURSIVE KeptFrom(_, _, _)
KeptFrom(raw, rooted, i) ==
    IF i > Len(raw) THEN <<>>
    ELSE IF raw[i] # CurDirName \/ (i = 1 /\ ~rooted)
         THEN <<raw[i]>> \o KeptFrom(raw, rooted, i + 1)
         ELSE KeptFrom(raw, rooted, i + 1)

\* Path::components: an optional RootDir, then the kept segments.
Components(s) ==
    (IF HasRoot(s) THEN <<Root>> ELSE <<>>) \o KeptFrom(Split(s), HasRoot(s), 1)

\* The path string a sequence of components denotes.
RECURSIVE JoinNames(_)
JoinNames(names) ==
    IF names = <<>> THEN <<>>
    ELSE IF Len(names) = 1 THEN names[1]
    ELSE names[1] \o <<SEP>> \o JoinNames(Tail(names))

PathOf(comps) ==
    IF comps # <<>> /\ comps[1] = Root
    THEN Root \o JoinNames(Tail(comps))
    ELSE JoinNames(comps)

\* Path::join / PathBuf::push: an absolute argument replaces the receiver.
Join(base, p) ==
    IF HasRoot(p) THEN p
    ELSE IF EndsWithSep(base) \/ base = <<>> THEN base \o p
    ELSE base \o <<SEP>> \o p

IsPrefixSeq(a, b) == Len(a) <= Len(b) /\ SubSeq(b, 1, Len(a)) = a

\* A strip_prefix that compares the strings character by character.
StripPrefixRaw(path, base) ==
    IF IsPrefixSeq(base, path)
    THEN [ok |-> TRUE, rest |-> PathOf(Components(SubSeq(path, Len(base) + 1, Len(path))))]
    ELSE [ok |-> FALSE, rest |-> <<>>]

\* Path::strip_prefix: component-wise; Ok carries the remaining path.
StripPrefix(path, base) ==
    LET p == Components(path)
        b == Components(base)
    IN IF IsPrefixSeq(b, p)
       THEN [ok |-> TRUE, rest |-> PathOf(SubSeq(p, Len(b) + 1, Len(p)))]
       ELSE [ok |-> FALSE, rest |-> <<>>]

\* Path::file_name: the last component when it is a normal one (else <<>>).
FileName(path) ==
    LET c == Components(path)
    IN IF c = <<>> THEN <<>>
       ELSE LET l == c[Len(c)]
            IN IF l = Root \/ l = ParentDirName \/ l = CurDirName THEN <<>> ELSE l

\* Index of the last "." of a name, 0 when it has none.
RECURSIVE LastDot(_, _)
LastDot(name, i) ==
    IF i = 0 THEN 0
    ELSE IF name[i] = DOT THEN i ELSE LastDot(name, i - 1)

\* An extension that is whatever follows the last ".", a leading one included.
ExtensionAfterAnyDot(path) ==
    LET f == FileName(path)
        d == LastDot(f, Len(f))
    IN IF f = <<>> \/ d = 0 THEN None
       ELSE Some(SubSeq(f, d + 1, Len(f)))

\* Path::extension: the part of the file name after its last ".", unless there
\* is no file name, no ".", or the only "." is the first character.
Extension(path) ==
    LET f == FileName(path)
        d == LastDot(f, Len(f))
    IN IF f = <<>> \/ d = 0 \/ d = 1 THEN None
       ELSE Some(SubSeq(f, d + 1, Len(f)))

(***************************************************************************)
(* The filesystem, and fs::canonicalize / fs::read on it                   *)
(***************************************************************************)
\* A node is a directory, a regular file with its bytes, or a symbolic link to
\* the canonical location it points at.  A location is the sequence of names
\* leading to it from the root directory <<>>.
Dir == [kind |-> "dir", bytes |-> "", to |-> <<>>]
File(b) == [kind |-> "file", bytes |-> b, to |-> <<>>]
Link(t) == [kind |-> "link", bytes |-> "", to |-> t]

n_app == <<"app">>
n_src == <<"src">>
n_assets == <<"assets">>
n_other == <<"other">>
n_etc == <<"etc">>
n_gone == <<"gone">>
n_index_html == <<"index", DOT, "html">>
n_missing_html == <<"missing", DOT, "html">>
n_data_json == <<"data", DOT, "json">>
n_readme == <<"README">>
n_dot_html == <<DOT, "html">>
n_page_HTML == <<"page", DOT, "HTML">>
n_pics_png == <<"pics", DOT, "png">>
n_logo_png == <<"logo", DOT, "png">>
n_secret_html == <<"secret", DOT, "html">>
n_x_html == <<"x", DOT, "html">>
n_c_html == <<"c", DOT, "html">>
n_foobar == <<"foo", "bar">>
n_foo == <<"foo">>
n_static == <<"static">>
n_a == <<"a">>
n_b == <<"b">>
n_out == <<"out">>

\* The working directory of the process (env::current_dir).
Cwd == Root \o n_app

BaseDisk ==
    ( <<>>                                          :> Dir
   @@ <<n_etc>>                                     :> Dir
   @@ <<n_etc, n_secret_html>>                      :> File("etc-secret")
   @@ <<n_index_html>>                              :> File("root-index")
   @@ <<n_app>>                                     :> Dir
   @@ <<n_app, n_src>>                              :> Dir
   @@ <<n_app, n_src, n_index_html>>                :> File("src-index")
   @@ <<n_app, n_src, n_data_json>>                 :> File("src-data")
   @@ <<n_app, n_src, n_readme>>                    :> File("src-readme")
   @@ <<n_app, n_src, n_dot_html>>                  :> File("src-dotfile")
   @@ <<n_app, n_src, n_page_HTML>>                 :> File("src-page")
   @@ <<n_app, n_src, n_pics_png>>                  :> Dir
   @@ <<n_app, n_src, n_foobar>>                    :> Dir
   @@ <<n_app, n_src, n_foobar, n_x_html>>          :> File("src-foobar-x")
   @@ <<n_app, n_src, n_a>>                         :> Dir
   @@ <<n_app, n_src, n_a, n_b>>                    :> Dir
   @@ <<n_app, n_src, n_a, n_b, n_c_html>>          :> File("src-a-b-c")
   @@ <<n_app, n_src, n_out>>                       :> Link(<<n_etc>>)
   @@ <<n_app, n_assets>>                           :> Dir
   @@ <<n_app, n_assets, n_logo_png>>               :> File("assets-logo")
   @@ <<n_app, n_assets, n_b>>                      :> Dir
   @@ <<n_app, n_assets, n_b, n_c_html>>            :> File("assets-b-c")
   @@ <<n_app, n_other>>                            :> Dir
   @@ <<n_app, n_other, n_c_html>>                  :> File("other-c")
   @@ <<n_app, n_other, n_logo_png>>                :> File("other-logo") )

\* The file the environment creates and removes while the server runs.
Volatile == <<n_app, n_src, n_missing_html>>

Exists(d, loc) == loc \in DOMAIN d

Parent(loc) == IF loc = <<>> THEN <<>> ELSE SubSeq(loc, 1, Len(loc) - 1)

IoOk(path) == [ok |-> TRUE, path |-> path, err |-> ""]
IoErr(e) == [ok |-> FALSE, path |-> <<>>, err |-> e]

\* Walk the raw segments from an existing, resolved location.
RECURSIVE Walk(_, _, _)
Walk(d, cur, segs) ==
    IF segs = <<>> THEN IoOk(Root \o JoinNames(cur))
    ELSE IF d[cur].kind # "dir" THEN IoErr("NotADirectory")
    ELSE LET h == Head(segs)
             nxt == Append(cur, h)
         IN IF h = CurDirName THEN Walk(d, cur, Tail(segs))
            ELSE IF h = ParentDirName THEN Walk(d, Parent(cur), Tail(segs))
            ELSE IF ~Exists(d, nxt) THEN IoErr("NotFound")
            ELSE IF d[nxt].kind = "link"
                 THEN IF Exists(d, d[nxt].to)
                      THEN Walk(d, d[nxt].to, Tail(segs))
                      ELSE IoErr("NotFound")
                 ELSE Walk(d, nxt, Tail(segs))

\* fs::canonicalize (realpath): resolves ".", ".." and symbolic links and fails
\* unless every component exists; a trailing separator demands a directory.
Canonicalize(d, path) ==
    LET raw == Split(path)
        segs == IF EndsWithSep(path) /\ raw # <<>> THEN Append(raw, CurDirName) ELSE raw
    IN IF path = <<>> THEN IoErr("NotFound")
       ELSE Walk(d, IF HasRoot(path) THEN <<>> ELSE Split(Cwd), segs)

\* fs::read of a canonical path: the bytes of a regular file.
Read(d, path) ==
    LET loc == Split(path)
    IN IF ~Exists(d, loc) THEN [ok |-> FALSE, bytes |-> "", err |-> "NotFound"]
       ELSE IF d[loc].kind # "file" THEN [ok |-> FALSE, bytes |-> "", err |-> "IsADirectory"]
       ELSE [ok |-> TRUE, bytes |-> d[loc].bytes, err |-> ""]

(***************************************************************************)
(* Configuration: servnt.toml, ServntFile, ServntState                     *)
(***************************************************************************)
e_html == <<"html">>
e_png == <<"png">>
e_ico == <<"ico">>
e_webmanifest == <<"webmanifest">>
e_json == <<"json">>

\* AppPaths::default_base
default_base == n_src

default_extension_content_types ==
    ( e_html        :> "text/html"
   @@ e_png         :> "image/png"
   @@ e_ico         :> "image/vnd.microsoft.icon"
   @@ e_webmanifest :> "application/manifest+json" )

NoExtensions == [e \in {} |-> ""]
NoMappings == [k \in {} |-> <<>>]

\* The [extensions] tables a servnt.toml may carry (None: the table is absent).
TomlExtensions ==
    { None,
      Some(e_json :> "application/json"),
      Some(e_html :> "text/plain" @@ e_json :> "application/json") }

\* The paths.base values a servnt.toml may carry (None: the key is absent).
TomlBases == { None, Some(n_src), Some(n_gone) }

\* The paths.mapped tables a servnt.toml may carry: prefix |-> directory.
TomlMapped ==
    { NoMappings,
      (Root \o n_static) :> n_assets,
      (Root \o n_foo) :> n_assets,
      (Root \o n_a) :> n_assets @@ (Root \o n_a \o Root \o n_b) :> n_other,
      (Root \o n_static) :> n_gone,
      (Root \o n_foo) :> n_assets @@ (Root \o n_static) :> n_gone }

\* The servnt.toml files considered.  The extension table and the path
\* mappings do not interact, so each is varied against a few values of the other.
TomlFiles ==
    { t \in [ name : {"site"}, version : {"1.0"},
              base : TomlBases, mapped : TomlMapped, extensions : TomlExtensions ] :
        \/ t.base = Some(n_src) /\ t.extensions = None
        \/ t.mapped \in {NoMappings, (Root \o n_static) :> n_assets}
             /\ (t.base = Some(n_src) \/ t.extensions = None) }

\* toml::from_str::<ServntFile> with the serde defaults of the missing keys.
ParseServntFile(toml) ==
    [ app |-> [name |-> toml.name, version |-> toml.version],
      extensions |-> IF toml.extensions = None THEN NoExtensions ELSE Get(toml.extensions),
      paths |-> [ base |-> IF toml.base = None THEN default_base ELSE Get(toml.base),
                  mapped |-> toml.mapped ] ]

\* The orders in which a HashMap with the keys S may iterate.
Orders(S) ==
    { o \in [1..Cardinality(S) -> S] : \A k \in S : \E i \in 1..Cardinality(S) : o[i] = k }

\* A merge in which an extension that has a default keeps it.
MergeKeepingDefaults(defaults, overrides) ==
    [ e \in DOMAIN defaults \cup DOMAIN overrides |->
        IF e \in DOMAIN defaults THEN defaults[e] ELSE overrides[e] ]

\* Inserting the configured overrides into the default table.
MergeExtensions(defaults, overrides) ==
    [ e \in DOMAIN defaults \cup DOMAIN overrides |->
        IF e \in DOMAIN overrides THEN overrides[e] ELSE defaults[e] ]

\* A constructor that leaves out the mapped targets it cannot canonicalize.
ServntState_new_lenient(cwd, file, d, order) ==
    LET base == Canonicalize(d, Join(cwd, file.paths.base))
        target == [ k \in DOMAIN file.paths.mapped |->
                      Canonicalize(d, Join(cwd, file.paths.mapped[k])) ]
        kept == SelectSeq(order, LAMBDA k : target[k].ok)
    IN IF ~base.ok THEN [ok |-> FALSE, state |-> None, err |-> base.err]
       ELSE [ok |-> TRUE, err |-> "",
             state |-> Some(
               [ extension_content_types |->
                   [ e \in DOMAIN default_extension_content_types \cup DOMAIN file.extensions |->
                       IF e \in DOMAIN file.extensions THEN file.extensions[e]
                       ELSE default_extension_content_types[e] ],
                 full_base_path |-> base.path,
                 mapped_paths |->
                   [ i \in 1..Len(kept) |-> <<kept[i], target[kept[i]].path>> ] ]) ]

\* ServntState::new.  d is the filesystem it runs on; order is the order in
\* which the mapped_paths HashMap it builds will iterate.
ServntState_new(cwd, file, d, order) ==
    LET base == Canonicalize(d, Join(cwd, file.paths.base))
        target == [ k \in DOMAIN file.paths.mapped |->
                      Canonicalize(d, Join(cwd, file.paths.mapped[k])) ]
    IN IF ~base.ok THEN [ok |-> FALSE, state |-> None, err |-> base.err]
       ELSE IF \E k \in DOMAIN target : ~target[k].ok
       THEN [ok |-> FALSE, state |-> None,
             err |-> target[CHOOSE k \in DOMAIN target : ~target[k].ok].err]
       ELSE [ok |-> TRUE, err |-> "",
             state |-> Some(
               [ extension_content_types |->
                   MergeExtensions(default_extension_content_types, file.extensions),
                 full_base_path |-> base.path,
                 mapped_paths |->
                   [ i \in 1..Len(order) |-> <<order[i], target[order[i]].path>> ] ]) ]

\* ServntState::get_content_type
get_content_type(st, path) ==
    LET e == Extension(path)
    IN IF e = None \/ Get(e) \notin DOMAIN st.extension_content_types
       THEN [ok |-> FALSE, mime |-> "", err |-> "unknown extension"]
       ELSE [ok |-> TRUE, mime |-> st.extension_content_types[Get(e)], err |-> ""]

\* The virtual path made absolute, as the prefixes are compared with it.
match_path(path) == Join(Root, path)

\* The loop of resolve_path: the first entry, in the map's iteration order,
\* whose key strip_prefix accepts (0: none).
RECURSIVE FirstMatchFrom(_, _, _)
FirstMatchFrom(st, path, i) ==
    IF i > Len(st.mapped_paths) THEN 0
    ELSE IF StripPrefix(match_path(path), st.mapped_paths[i][1]).ok THEN i
    ELSE FirstMatchFrom(st, path, i + 1)

FirstMatch(st, path) == FirstMatchFrom(st, path, 1)

\* The path resolve_path hands to canonicalize.
final_path(st, path) ==
    LET i == FirstMatch(st, path)
    IN IF i = 0 THEN Join(st.full_base_path, path)
       ELSE LET stripped_path == StripPrefix(match_path(path), st.mapped_paths[i][1]).rest
                mapped == st.mapped_paths[i][2]
            IN IF stripped_path = <<>> THEN mapped ELSE Join(mapped, stripped_path)

\* A resolve_path that rejects what lies outside the configured directories.
resolve_path_contained(st, path, d) ==
    LET found == Canonicalize(d, final_path(st, path))
        inside(dir) == found.path = dir \/ IsPrefixSeq(dir \o <<SEP>>, found.path)
    IN IF found.ok /\ ~inside(st.full_base_path)
                   /\ \A i \in 1..Len(st.mapped_paths) : ~inside(st.mapped_paths[i][2])
       THEN IoErr("Forbidden")
       ELSE found

\* ServntState::resolve_path, on the filesystem d.
resolve_path(st, path, d) == Canonicalize(d, final_path(st, path))

(***************************************************************************)
(* Request handling                                                        *)
(***************************************************************************)
Ok200(content_type, bytes) ==
    [status |-> 200, headers |-> <<<<"Content-Type", content_type>>>>, body |-> bytes]

\* StatusCode::INTERNAL_SERVER_ERROR as a response: no headers, empty body.
Err500 == [status |-> 500, headers |-> <<>>, body |-> ""]

\* A get_file that answers a failed read with a 200 and no bytes.
get_file_ignoring_read(st, path, d) ==
    LET file_path == resolve_path(st, path, d)
        content_type == get_content_type(st, file_path.path)
        bytes == Read(d, file_path.path)
    IN IF ~file_path.ok THEN [response |-> Err500, eprintln |-> file_path.err]
       ELSE IF ~content_type.ok THEN [response |-> Err500, eprintln |-> content_type.err]
       ELSE [response |-> Ok200(content_type.mime, bytes.bytes), eprintln |-> bytes.err]

\* get_file: resolve, look the content type up, read; any error is printed
\* to stderr and becomes a bare 500.
get_file(st, path, d) ==
    LET file_path == resolve_path(st, path, d)
        content_type == get_content_type(st, file_path.path)
        bytes == Read(d, file_path.path)
    IN IF ~file_path.ok THEN [response |-> Err500, eprintln |-> file_path.err]
       ELSE IF ~content_type.ok THEN [response |-> Err500, eprintln |-> content_type.err]
       ELSE IF ~bytes.ok THEN [response |-> Err500, eprintln |-> bytes.err]
       ELSE [response |-> Ok200(content_type.mime, bytes.bytes), eprintln |-> ""]

\* The virtual paths clients ask for.
VirtualPaths ==
    { n_index_html,
      Root \o n_index_html,
      n_missing_html,
      n_data_json,
      n_readme,
      n_dot_html,
      n_page_HTML,
      n_pics_png,
      n_index_html \o Root,
      Root \o n_static \o Root \o n_logo_png,
      Root \o n_static,
      n_static \o Root \o n_logo_png,
      Root \o n_foobar \o Root \o n_x_html,
      n_foobar \o Root \o n_x_html,
      Root \o n_foo \o Root \o n_logo_png,
      Root \o n_foo,
      Root \o n_a \o Root \o n_b \o Root \o n_c_html,
      n_a \o Root \o n_b \o Root \o n_c_html,
      Root \o n_a \o Root \o n_logo_png,
      ParentDirName \o Root \o ParentDirName \o Root \o n_etc \o Root \o n_secret_html,
      n_out \o Root \o n_secret_html,
      Root \o n_etc \o Root \o n_secret_html,
      Root \o n_static \o Root \o ParentDirName \o Root \o ParentDirName
           \o Root \o n_etc \o Root \o n_secret_html }

\* One request served with the shared state st: what the handler computed on
\* the way, and its answer.
Serve(st, path) ==
    LET file_path == resolve_path(st, path, disk)
        out == get_file(st, path, disk)
    IN /\ request' = Some(path)
       /\ resolved' = Some(file_path)
       /\ content' = IF file_path.ok THEN Some(get_content_type(st, file_path.path)) ELSE None
       /\ response' = Some(out.response)
       /\ stderr' = out.eprintln
       /\ served_on' = disk
       /\ previous' = IF request = Some(path)
                      THEN Some([resolved |-> Get(resolved), disk |-> served_on])
                      ELSE None

(***************************************************************************)
(* main, the two route handlers, and the environment                       *)
(***************************************************************************)
Init ==
    /\ pc = "start"
    /\ servnt_toml \in {None} \cup {Some(t) : t \in TomlFiles}
    /\ servnt_file = None
    /\ state = None
    /\ bound = FALSE
    /\ disk = BaseDisk
    /\ changes = 0
    /\ request = None
    /\ resolved = None
    /\ content = None
    /\ response = None
    /\ stderr = ""
    /\ served_on = BaseDisk
    /\ previous = None

\* main: read and parse servnt.toml; `?` returns from main on an error.
Main_ReadConfig ==
    /\ pc = "start"
    /\ IF servnt_toml = None
       THEN /\ pc' = "exited"
            /\ stderr' = "NotFound"
            /\ UNCHANGED servnt_file
       ELSE /\ pc' = "loaded"
            /\ servnt_file' = Some(ParseServntFile(Get(servnt_toml)))
            /\ UNCHANGED stderr
    /\ UNCHANGED <<servnt_toml, state, bound, disk, changes, request, resolved,
                   content, response, served_on, previous>>

\* main: ServntState::new(&cwd, servnt_file)?
Main_NewState ==
    /\ pc = "loaded"
    /\ \E order \in Orders(DOMAIN Get(servnt_file).paths.mapped) :
         LET made == ServntState_new(Cwd, Get(servnt_file), disk, order)
         IN IF made.ok
            THEN /\ pc' = "built"
                 /\ state' = made.state
                 /\ UNCHANGED stderr
            ELSE /\ pc' = "exited"
                 /\ stderr' = made.err
                 /\ UNCHANGED state
    /\ UNCHANGED <<servnt_toml, servnt_file, bound, disk, changes, request, resolved,
                   content, response, served_on, previous>>

\* main: build the router and bind 127.0.0.1:19518.
Main_Bind ==
    /\ pc = "built"
    /\ pc' = "serving"
    /\ bound' = TRUE
    /\ UNCHANGED <<servnt_toml, servnt_file, state, disk, changes, request, resolved,
                   content, response, stderr, served_on, previous>>

\* A get_path whose map iterates in a new order on every request.
get_path_rehashed(desired_path) ==
    /\ pc = "serving"
    /\ \E order \in Orders(1..Len(Get(state).mapped_paths)) :
         Serve([Get(state) EXCEPT !.mapped_paths =
                  [i \in 1..Len(order) |-> Get(state).mapped_paths[order[i]]]],
               desired_path)
    /\ UNCHANGED <<pc, servnt_toml, servnt_file, state, bound, disk, changes>>

\* get_path: GET /*desired
get_path(desired_path) ==
    /\ pc = "serving"
    /\ Serve(Get(state), desired_path)
    /\ UNCHANGED <<pc, servnt_toml, servnt_file, state, bound, disk, changes>>

\* get_root_index: GET /
get_root_index ==
    /\ pc = "serving"
    /\ Serve(Get(state), n_index_html)
    /\ UNCHANGED <<pc, servnt_toml, servnt_file, state, bound, disk, changes>>

\* The environment creates or removes a file of the served tree.
DiskChange ==
    /\ pc = "serving"
    /\ changes < MaxDiskChanges
    /\ changes' = changes + 1
    /\ disk' = IF Exists(disk, Volatile)
               THEN [loc \in DOMAIN disk \ {Volatile} |-> disk[loc]]
               ELSE (Volatile :> File("src-missing")) @@ disk
    /\ UNCHANGED <<pc, servnt_toml, servnt_file, state, bound, request, resolved,
                   content, response, stderr, served_on, previous>>

Next ==
    \/ Main_ReadConfig
    \/ Main_NewState
    \/ Main_Bind
    \/ \E desired_path \in VirtualPaths : get_path(desired_path)
    \/ get_root_index
    \/ DiskChange

Spec == Init /\ [][Next]_vars

(***************************************************************************)
(* Properties                                                              *)
(***************************************************************************)
\* What the properties say about a request is said of the last one handled:
\* its virtual path, the state it was handled with, the filesystem it saw.
Served == request # None

\* The virtual path as the resolver compares it: with one leading separator.
Rooted(p) == IF HasRoot(p) THEN p ELSE Root \o p

\* prefix is a path-segment prefix of s: s is prefix, or prefix and a separator
\* and more.
SegmentPrefix(prefix, s) == s = prefix \/ IsPrefixSeq(prefix \o <<SEP>>, s)

\* What is left of s after a segment prefix and the separator behind it.
Remainder(prefix, s) ==
    IF Len(s) <= Len(prefix) THEN <<>> ELSE SubSeq(s, Len(prefix) + 2, Len(s))

\* The path named by rest below the directory dir; dir itself when rest is empty.
Below(dir, rest) == IF rest = <<>> THEN dir ELSE dir \o <<SEP>> \o rest

Prefix(st, i) == st.mapped_paths[i][1]
Target(st, i) == st.mapped_paths[i][2]

\* The configured mappings whose prefix is a segment prefix of the rooted path.
Matching(st, p) ==
    { i \in 1..Len(st.mapped_paths) : SegmentPrefix(Prefix(st, i), Rooted(p)) }

\* What resolving p through mapping i must give on the filesystem d.
Through(st, i, p, d) ==
    Canonicalize(d, Below(Target(st, i), Remainder(Prefix(st, i), Rooted(p))))

\* C1: a virtual path, with or without a leading separator, that no configured
\* prefix matches resolves to canonicalize(base directory + separator + path):
\* the location is always taken below the base directory, never from the
\* virtual path alone.
C1_UnmatchedResolvesUnderBase ==
    Served =>
        LET st == Get(state)
            p == Get(request)
        IN Matching(st, p) = {} =>
             Get(resolved) = Canonicalize(served_on, st.full_base_path \o <<SEP>> \o p)

\* C2: for every configured mapping (prefix, target) and every virtual path
\* that is the prefix or starts with the prefix and a separator, resolve gives
\* canonicalize(target + remainder), whatever other mappings are configured.
C2_EveryMatchingMappingApplies ==
    Served =>
        LET st == Get(state)
            p == Get(request)
        IN \A i \in 1..Len(st.mapped_paths) :
             SegmentPrefix(Prefix(st, i), p) =>
               Get(resolved) =
                 Canonicalize(served_on, Below(Target(st, i), Remainder(Prefix(st, i), p)))

\* The matching mapping with the longest prefix.
Longest(st, p) ==
    CHOOSE i \in Matching(st, p) :
        \A j \in Matching(st, p) : Len(Prefix(st, j)) <= Len(Prefix(st, i))

\* C4: when several configured prefixes are segment prefixes of the virtual
\* path, resolve goes through the mapping with the longest of them.
C4_LongestPrefixWins ==
    Served =>
        LET st == Get(state)
            p == Get(request)
        IN Matching(st, p) # {} =>
             Get(resolved) = Through(st, Longest(st, p), p, served_on)

\* A prefix that starts the rooted path as a string without being a segment
\* prefix of it ("/foo" for "/foobar/x").
RawPrefixOnly(prefix, s) == IsPrefixSeq(prefix, s) /\ ~SegmentPrefix(prefix, s)

\* C3: a mapping whose prefix only starts the first segment of the virtual path
\* ("/foo" for "/foobar" or "/foobar/x") is never the one resolve goes through:
\* the path is resolved through a mapping whose prefix is a segment prefix of
\* it, or, when there is none, below the base directory.
C3_SegmentsNotSubstrings ==
    Served =>
        LET st == Get(state)
            p == Get(request)
        IN (\E i \in 1..Len(st.mapped_paths) : RawPrefixOnly(Prefix(st, i), Rooted(p))) =>
             /\ \A i \in 1..Len(st.mapped_paths) :
                  RawPrefixOnly(Prefix(st, i), Rooted(p)) => FirstMatch(st, p) # i
             /\ IF Matching(st, p) = {}
                THEN Get(resolved) =
                       Canonicalize(served_on, st.full_base_path \o <<SEP>> \o p)
                ELSE \E j \in Matching(st, p) : Get(resolved) = Through(st, j, p, served_on)

\* The part of C3 that is about matching alone: a mapping whose prefix only
\* starts the first segment of the virtual path is never selected, and the
\* path goes through a segment-matching mapping or through the fallback
\* full_base_path.join(path).
SegmentMatchingOnly ==
    Served =>
        LET st == Get(state)
            p == Get(request)
        IN (\E i \in 1..Len(st.mapped_paths) : RawPrefixOnly(Prefix(st, i), Rooted(p))) =>
             /\ \A i \in 1..Len(st.mapped_paths) :
                  RawPrefixOnly(Prefix(st, i), Rooted(p)) => FirstMatch(st, p) # i
             /\ IF Matching(st, p) = {}
                THEN Get(resolved) = Canonicalize(served_on, Join(st.full_base_path, p))
                ELSE \E j \in Matching(st, p) : Get(resolved) = Through(st, j, p, served_on)

\* With "/foo" mapped, "foobar/x.html" was served from the base directory's
\* foobar/x.html.
SegmentMatchingOnly_Witness ==
    /\ Served
    /\ Get(request) = n_foobar \o Root \o n_x_html
    /\ \E i \in 1..Len(Get(state).mapped_paths) : Prefix(Get(state), i) = Root \o n_foo
    /\ Get(resolved).ok
    /\ Get(resolved).path = Get(state).full_base_path \o Root \o n_foobar \o Root \o n_x_html

\* The last raw segment of a path string (<<>> when it has none).
FinalSegment(path) ==
    LET raw == Split(path) IN IF raw = <<>> THEN <<>> ELSE raw[Len(raw)]

\* The table's answer for the text after the final segment's last ".", when
\* that "." is at position from or later; UnknownExtension otherwise.
LookupAfterLastDot(st, path, from) ==
    LET seg == FinalSegment(path)
        d == LastDot(seg, Len(seg))
        key == SubSeq(seg, d + 1, Len(seg))
    IN IF d >= from /\ key \in DOMAIN st.extension_content_types
       THEN [ok |-> TRUE, mime |-> st.extension_content_types[key], err |-> ""]
       ELSE [ok |-> FALSE, mime |-> "", err |-> "unknown extension"]

\* C5 as stated: lookup answers with the table's entry for the text after the
\* last "." of the final segment, wherever that "." is, a leading one (".html")
\* included, and fails with UnknownExtension when there is no such entry or no ".".
C5_LookupAfterAnyLastDot ==
    content # None =>
        Get(content) = LookupAfterLastDot(Get(state), Get(resolved).path, 1)

\* C5 as amended: lookup answers with the table's entry, compared symbol for
\* symbol, for the text after the last "." of the final segment, and fails with
\* UnknownExtension when the table has no such entry, when the segment has no
\* ".", or when its only "." is its first character (".html" has no extension).
C5_LookupAfterInnerLastDot ==
    content # None =>
        Get(content) = LookupAfterLastDot(Get(state), Get(resolved).path, 2)

\* C5 witness: the existing file ".html" was looked up and has no content type,
\* although the table maps "html".
C5_Witness ==
    /\ content # None
    /\ FinalSegment(Get(resolved).path) = n_dot_html
    /\ e_html \in DOMAIN Get(state).extension_content_types
    /\ ~Get(content).ok
    /\ Get(content).err = "unknown extension"

\* A file name with the extension e.
Named(e) == <<"f", DOT>> \o e

\* C6: the table of a constructed state is the default table overlaid with the
\* configured overrides: lookup gives the override for every overridden
\* extension, a default one included, and the default for every other default
\* extension; a collision does not make construction fail.
C6_OverridesOverlayDefaults ==
    /\ state # None =>
         LET st == Get(state)
             overrides == Get(servnt_file).extensions
         IN /\ \A e \in DOMAIN overrides :
                 get_content_type(st, Named(e)) = [ok |-> TRUE, mime |-> overrides[e], err |-> ""]
            /\ \A e \in DOMAIN default_extension_content_types \ DOMAIN overrides :
                 get_content_type(st, Named(e)) =
                   [ok |-> TRUE, mime |-> default_extension_content_types[e], err |-> ""]
            /\ content # None /\ Get(content).ok =>
                 LET e == Get(Extension(Get(resolved).path))
                 IN Get(content).mime = IF e \in DOMAIN overrides THEN overrides[e]
                                        ELSE default_extension_content_types[e]
    /\ (pc = "exited" /\ servnt_file # None) =>
         LET paths == Get(servnt_file).paths
         IN \/ ~Canonicalize(disk, Join(Cwd, paths.base)).ok
            \/ \E k \in DOMAIN paths.mapped : ~Canonicalize(disk, Join(Cwd, paths.mapped[k])).ok

\* C6 witness: "html" is overridden to text/plain, and index.html was served
\* as text/plain while a png still has its default type.
C6_Witness ==
    /\ state # None
    /\ e_html \in DOMAIN Get(servnt_file).extensions
    /\ content = Some([ok |-> TRUE, mime |-> "text/plain", err |-> ""])
    /\ FinalSegment(Get(resolved).path) = n_index_html
    /\ Get(state).extension_content_types[e_png] = "image/png"

\* C7: the response is 200 with the looked-up type as Content-Type and the
\* file's bytes exactly when resolving, looking up and reading all succeed;
\* otherwise it is a 500 with no header and an empty body, whatever failed.
C7_OkOrOpaque500 ==
    Served =>
        LET file_path == Get(resolved)
            bytes == Read(served_on, file_path.path)
        IN IF file_path.ok /\ Get(content).ok /\ bytes.ok
           THEN Get(response) =
                  [ status |-> 200,
                    headers |-> <<<<"Content-Type", Get(content).mime>>>>,
                    body |-> bytes.bytes ]
           ELSE Get(response) = [status |-> 500, headers |-> <<>>, body |-> ""]

\* C7 witness: the path resolved to a directory with a known extension; the
\* read failed and the answer is the bare 500.
C7_Witness ==
    /\ Served
    /\ Get(resolved).ok
    /\ Get(content).ok
    /\ served_on[Split(Get(resolved).path)].kind = "dir"
    /\ Get(response).status = 500
    /\ Get(response).body = ""

\* Whether the configuration's base directory and mapped targets canonicalize
\* on the filesystem the process starts on.
BaseValid(file) == Canonicalize(BaseDisk, Join(Cwd, file.paths.base)).ok
TargetValid(file, k) == Canonicalize(BaseDisk, Join(Cwd, file.paths.mapped[k])).ok
ConfigValid(file) == BaseValid(file) /\ \A k \in DOMAIN file.paths.mapped : TargetValid(file, k)

\* C8: if the base directory or any one mapped target cannot be canonicalized,
\* construction fails and the process ends without binding the socket or
\* serving a request; whenever the socket is bound or a request has been
\* served, the base directory and every mapped target were canonicalized.
C8_InvalidConfigNeverServes ==
    /\ (servnt_file # None /\ pc \notin {"start", "loaded"} /\ ~ConfigValid(Get(servnt_file))) =>
         pc = "exited" /\ state = None /\ ~bound /\ ~Served
    /\ pc = "exited" => ~bound /\ ~Served
    /\ (bound \/ Served) =>
         /\ state # None
         /\ LET file == Get(servnt_file)
                st == Get(state)
            IN /\ BaseValid(file)
               /\ st.full_base_path = Canonicalize(BaseDisk, Join(Cwd, file.paths.base)).path
               /\ Len(st.mapped_paths) = Cardinality(DOMAIN file.paths.mapped)
               /\ \A k \in DOMAIN file.paths.mapped :
                    /\ TargetValid(file, k)
                    /\ \E i \in 1..Len(st.mapped_paths) :
                         st.mapped_paths[i] =
                           <<k, Canonicalize(BaseDisk, Join(Cwd, file.paths.mapped[k])).path>>

\* C8 witness: the base directory and one mapped target exist, another mapped
\* target does not; the process has exited without binding.
C8_Witness ==
    /\ pc = "exited"
    /\ servnt_file # None
    /\ BaseValid(Get(servnt_file))
    /\ \E k \in DOMAIN Get(servnt_file).paths.mapped : TargetValid(Get(servnt_file), k)
    /\ \E k \in DOMAIN Get(servnt_file).paths.mapped : ~TargetValid(Get(servnt_file), k)
    /\ ~bound
    /\ stderr = "NotFound"

Outside(st, path) ==
    /\ ~SegmentPrefix(st.full_base_path, path)
    /\ \A i \in 1..Len(st.mapped_paths) : ~SegmentPrefix(Target(st, i), path)

\* The canonical locations the joined path of p may have: through a matching
\* mapping, or below the base directory when there is none.
Candidates(st, p, d) ==
    IF Matching(st, p) = {}
    THEN {Canonicalize(d, Join(st.full_base_path, p))}
    ELSE {Through(st, i, p, d) : i \in Matching(st, p)}

\* C10: resolve checks no containment: when the joined path canonicalizes to
\* an existing location outside the base directory and outside every mapped
\* target, resolve succeeds and returns that location.
C10_NoContainmentCheck ==
    Served =>
        LET st == Get(state)
            found == Candidates(st, Get(request), served_on)
        IN (\A c \in found : c.ok /\ Outside(st, c.path)) => Get(resolved) \in found

\* C10 witness: "../../etc/secret.html" resolved to /etc/secret.html, outside
\* every configured directory, and the file was served.
C10_Witness ==
    /\ Served
    /\ Get(request) = ParentDirName \o Root \o ParentDirName \o Root \o n_etc \o Root \o n_secret_html
    /\ Get(resolved).ok
    /\ Get(resolved).path = Root \o n_etc \o Root \o n_secret_html
    /\ Outside(Get(state), Get(resolved).path)
    /\ Get(response).status = 200
    /\ Get(response).body = "etc-secret"

====
